---- MODULE Spec2Model ----
(***************************************************************************)
(* Model of llm_workflow.py: the markdown blog-post parser                 *)
(* (BlogContentRepurposer), the three content strategies with their        *)
(* model-backed attempt and rule-based fallback, and the repurpose         *)
(* orchestration.  Text is a sequence of one-character strings, so that    *)
(* split, strip, join and slicing are computed character by character.     *)
(***************************************************************************)
EXTENDS Integers, Sequences, FiniteSets, TLC

VARIABLES blog_post, title, sections, pc, context, results, calls, last, returned

vars == <<blog_post, title, sections, pc, context, results, calls, last, returned>>

----------------------------------------------------------------------------
(* Bounds of the checked input spaces.                                     *)

\* Largest number of lines of a blog post handed to the parser.
MaxLines == 4

\* Largest number of lines of a blog post handed to the whole pipeline.
MaxPipeLines == 3

\* Paragraph lengths of the summary inputs lie within Near of 0 and of the
\* truncation limit.
Near == 2

----------------------------------------------------------------------------
(* Python string primitives.                                               *)

\* The characters str.strip() removes.
Whitespace == {" ", "\t", "\n", "\r"}

UpperLetters ==
    <<"A", "B", "C", "D", "E", "F", "G", "H", "I", "J", "K", "L", "M",
      "N", "O", "P", "Q", "R", "S", "T", "U", "V", "W", "X", "Y", "Z">>

LowerLetters ==
    <<"a", "b", "c", "d", "e", "f", "g", "h", "i", "j", "k", "l", "m",
      "n", "o", "p", "q", "r", "s", "t", "u", "v", "w", "x", "y", "z">>

\* str.lower() on one character.
LowerChar(c) ==
    IF \E k \in 1..26 : UpperLetters[k] = c
    THEN LowerLetters[CHOOSE k \in 1..26 : UpperLetters[k] = c]
    ELSE c

\* str.lower()
Lower(s) == [i \in 1..Len(s) |-> LowerChar(s[i])]

\* s.startswith(prefix)
StartsWith(s, prefix) ==
    /\ Len(s) >= Len(prefix)
    /\ \A i \in 1..Len(prefix) : s[i] = prefix[i]

\* s.lstrip(chars): drop the longest prefix made of characters of chars.
LStripChars(s, chars) ==
    LET keep == {i \in 1..Len(s) : s[i] \notin chars}
    IN  IF keep = {} THEN <<>>
        ELSE SubSeq(s, CHOOSE i \in keep : \A j \in keep : i <= j, Len(s))

\* s.rstrip(chars)
RStripChars(s, chars) ==
    LET keep == {i \in 1..Len(s) : s[i] \notin chars}
    IN  IF keep = {} THEN <<>>
        ELSE SubSeq(s, 1, CHOOSE i \in keep : \A j \in keep : j <= i)

\* s.strip()
Strip(s) == RStripChars(LStripChars(s, Whitespace), Whitespace)

\* Whether sep occurs in s at position i.
MatchAt(s, sep, i) ==
    /\ i + Len(sep) - 1 <= Len(s)
    /\ \A k \in 1..Len(sep) : s[i + k - 1] = sep[k]

RECURSIVE SplitFrom(_, _, _, _)
\* The left-to-right scan of s.split(sep): find the next occurrence of sep
\* at or after start, close the piece before it, go on behind it.
SplitFrom(s, sep, start, acc) ==
    LET hits == {i \in start..Len(s) : MatchAt(s, sep, i)}
    IN  IF hits = {} THEN Append(acc, SubSeq(s, start, Len(s)))
        ELSE LET hit == CHOOSE i \in hits : \A j \in hits : i <= j
             IN  SplitFrom(s, sep, hit + Len(sep),
                           Append(acc, SubSeq(s, start, hit - 1)))

\* s.split(sep) for a non-empty separator.
Split(s, sep) == SplitFrom(s, sep, 1, <<>>)

RECURSIVE Join(_, _)
\* sep.join(parts)
Join(parts, sep) ==
    IF Len(parts) = 0 THEN <<>>
    ELSE IF Len(parts) = 1 THEN parts[1]
    ELSE parts[1] \o sep \o Join(Tail(parts), sep)

RECURSIVE WordsAt(_, _, _, _)
\* The scan of s.split() (no argument): runs of non-whitespace characters.
WordsAt(s, i, cur, acc) ==
    IF i > Len(s) THEN (IF cur = <<>> THEN acc ELSE Append(acc, cur))
    ELSE IF s[i] \in Whitespace
         THEN WordsAt(s, i + 1, <<>>, IF cur = <<>> THEN acc ELSE Append(acc, cur))
         ELSE WordsAt(s, i + 1, Append(cur, s[i]), acc)

\* s.split()
SplitWords(s) == WordsAt(s, 1, <<>>, <<>>)

\* s[:n]
Prefix(s, n) == SubSeq(s, 1, IF Len(s) < n THEN Len(s) ELSE n)

----------------------------------------------------------------------------
(* String literals of the source.                                          *)

NL == <<"\n">>

ParagraphSep == <<"\n", "\n">>

TitleMarker == <<"#", " ">>

SectionMarker == <<"#", "#", " ">>

HeadingStripChars == {"#", " "}

DefaultTitle ==
    <<"U", "n", "t", "i", "t", "l", "e", "d", " ", "B", "l", "o", "g", " ",
      "P", "o", "s", "t">>

DefaultSection ==
    <<"I", "n", "t", "r", "o", "d", "u", "c", "t", "i", "o", "n">>

----------------------------------------------------------------------------
(* BlogContentRepurposer: the parser.                                      *)

IsTitleLine(line) == StartsWith(line, TitleMarker)

IsSectionLine(line) == StartsWith(line, SectionMarker)

\* line.lstrip('# ').strip()
HeadingText(line) == Strip(LStripChars(line, HeadingStripChars))

RECURSIVE TitleLines(_)
\* [line for line in lines if line.startswith('# ')]
TitleLines(lines) ==
    IF lines = <<>> THEN <<>>
    ELSE (IF IsTitleLine(Head(lines)) THEN <<Head(lines)>> ELSE <<>>)
         \o TitleLines(Tail(lines))

\* _extract_title taking the last title line, not the first.
ExtractTitleLast(text) ==
    LET title_lines == TitleLines(Split(text, NL))
    IN  IF title_lines # <<>> THEN HeadingText(title_lines[Len(title_lines)])
        ELSE DefaultTitle

\* _extract_title
ExtractTitle(text) ==
    LET title_lines == TitleLines(Split(text, NL))
    IN  IF title_lines # <<>> THEN HeadingText(title_lines[1])
        ELSE DefaultTitle

\* The keys of a dict, in insertion order.  A dict is a sequence of
\* [name, body] entries with pairwise different names.
Keys(d) == [i \in 1..Len(d) |-> d[i].name]

HasKey(d, k) == \E i \in 1..Len(d) : d[i].name = k

\* d[k]
Get(d, k) == d[CHOOSE i \in 1..Len(d) : d[i].name = k].body

\* d[k] = v: an existing key keeps its place and takes the new value.
DictSet(d, k, v) ==
    IF HasKey(d, k)
    THEN [i \in 1..Len(d) |-> IF d[i].name = k THEN [name |-> k, body |-> v] ELSE d[i]]
    ELSE Append(d, [name |-> k, body |-> v])

\* '\n'.join(section_content).strip()
SectionBody(section_content) == Strip(Join(section_content, NL))

\* One iteration of the for loop of _extract_sections.
SectionStep(st, line) ==
    IF IsSectionLine(line)
    THEN [sections |->
              IF st.current_section # DefaultSection
              THEN DictSet(st.sections, st.current_section,
                           SectionBody(st.section_content))
              ELSE st.sections,
          current_section |-> HeadingText(line),
          section_content |-> <<>>]
    ELSE [st EXCEPT !.section_content = Append(st.section_content, line)]

RECURSIVE SectionLoop(_, _)
SectionLoop(st, lines) ==
    IF lines = <<>> THEN st
    ELSE SectionLoop(SectionStep(st, Head(lines)), Tail(lines))

\* The "Add last section" step after the loop.
SectionFlush(st) ==
    IF st.section_content # <<>>
    THEN DictSet(st.sections, st.current_section, SectionBody(st.section_content))
    ELSE st.sections

\* _extract_sections
ExtractSections(text) ==
    SectionFlush(SectionLoop([sections |-> <<>>,
                              current_section |-> DefaultSection,
                              section_content |-> <<>>],
                             Split(text, NL)))

----------------------------------------------------------------------------
(* The model client: what one chat-completion call can do.                 *)

NoneContent == [none |-> TRUE, text |-> <<>>]

TextContent(t) == [none |-> FALSE, text |-> t]

RaiseOutcome == [kind |-> "raise", choices |-> <<>>]

ResponseOutcome(choices) == [kind |-> "response", choices |-> choices]

\* The call raises; the response has no choices; the first choice has no
\* content; the text is empty, blank, padded, or plain with a second choice.
ModelOutcomes ==
    { RaiseOutcome,
      ResponseOutcome(<<>>),
      ResponseOutcome(<<NoneContent>>),
      ResponseOutcome(<<TextContent(<<>>)>>),
      ResponseOutcome(<<TextContent(<<" ", "\n">>)>>),
      ResponseOutcome(<<TextContent(<<" ", "x", " ">>)>>),
      ResponseOutcome(<<TextContent(<<"y">>), TextContent(<<"z">>)>>) }

----------------------------------------------------------------------------
(* The content strategies.                                                 *)

SummaryLimit == 250

SummaryMaxTokens == 250

HashtagMinLen == 3

Ellipsis == <<".", ".", ".">>

SocialMiddle ==
    <<"\n", "\n", "R", "e", "a", "d", " ", "m", "o", "r", "e", ":", " ",
      "[", "L", "I", "N", "K", "]", "\n", "\n">>

NewsletterSubject == <<"\n", "S", "u", "b", "j", "e", "c", "t", ":", " ">>

NewsletterGreeting ==
    <<"\n", "\n", "H", "i", " ", "t", "h", "e", "r", "e", "!", "\n", "\n",
      "C", "h", "e", "c", "k", " ", "o", "u", "t", " ", "o", "u", "r", " ",
      "l", "a", "t", "e", "s", "t", " ", "b", "l", "o", "g", " ",
      "p", "o", "s", "t", ":", " ">>

NewsletterHighlights ==
    <<"\n", "\n", "H", "i", "g", "h", "l", "i", "g", "h", "t", "s", ":", "\n">>

NewsletterClosing ==
    <<"\n", "\n", "R", "e", "a", "d", " ", "f", "u", "l", "l", " ",
      "a", "r", "t", "i", "c", "l", "e", ":", " ", "[", "L", "I", "N", "K", "]",
      "\n", "\n", "C", "h", "e", "e", "r", "s", "!", "\n">>

\* The request each strategy's _llm_generate sends: the system instruction,
\* the user prompt (a fixed prefix and a context field), the output limit
\* (0 where the call gives none).
Request(strategy, ctx) ==
    CASE strategy = "Summary" ->
           [system |-> "Create a concise blog summary.",
            user_prefix |-> "Summarize this blog post: ",
            user_field |-> ctx.blog_post,
            max_tokens |-> SummaryMaxTokens]
      [] strategy = "SocialMedia" ->
           [system |-> "Create engaging social media posts.",
            user_prefix |-> "Create social posts for: ",
            user_field |-> ctx.title,
            max_tokens |-> 0]
      [] strategy = "Newsletter" ->
           [system |-> "Create an engaging email newsletter.",
            user_prefix |-> "Create newsletter for blog: ",
            user_field |-> ctx.blog_post,
            max_tokens |-> 0]

\* _llm_generate returning the content as received, not stripped.
LlmGenerateNoStrip(strategy, ctx, outcome) ==
    LET request == Request(strategy, ctx)
    IN  IF \/ outcome.kind = "raise"
           \/ Len(outcome.choices) = 0
           \/ outcome.choices[1].none
        THEN [requests |-> <<request>>, raised |-> TRUE, value |-> <<>>]
        ELSE [requests |-> <<request>>, raised |-> FALSE,
              value |-> outcome.choices[1].text]

\* _llm_generate: one call; response.choices[0].message.content.strip()
\* raises on a raising call, on no choices and on absent content.
LlmGenerate(strategy, ctx, outcome) ==
    LET request == Request(strategy, ctx)
    IN  IF \/ outcome.kind = "raise"
           \/ Len(outcome.choices) = 0
           \/ outcome.choices[1].none
        THEN [requests |-> <<request>>, raised |-> TRUE, value |-> <<>>]
        ELSE [requests |-> <<request>>, raised |-> FALSE,
              value |-> Strip(outcome.choices[1].text)]

\* The truncation with the comparison off by one: >= in place of >.
TruncateAtLimit(summary) ==
    IF Len(summary) >= SummaryLimit
    THEN Prefix(summary, SummaryLimit) \o Ellipsis
    ELSE summary

\* summary[:250] + '...' if len(summary) > 250 else summary
Truncate(summary) ==
    IF Len(summary) > SummaryLimit
    THEN Prefix(summary, SummaryLimit) \o Ellipsis
    ELSE summary

\* SummaryStrategy._rule_generate
SummaryRule(ctx) ==
    LET paragraphs == Split(ctx.blog_post, ParagraphSep)
        summary    == Join(Prefix(paragraphs, 2), <<" ">>)
    IN  Truncate(summary)

RECURSIVE Hashtags(_)
\* ['#' + word.lower() for word in words if len(word) > 3]
Hashtags(words) ==
    IF words = <<>> THEN <<>>
    ELSE (IF Len(Head(words)) > HashtagMinLen
          THEN <<(<<"#">> \o Lower(Head(words)))>> ELSE <<>>)
         \o Hashtags(Tail(words))

\* SocialMediaStrategy._rule_generate
SocialRule(ctx) ==
    ctx.title \o SocialMiddle \o Join(Hashtags(SplitWords(ctx.title)), <<" ">>)

\* NewsletterStrategy._rule_generate
NewsletterRule(ctx) ==
    LET paragraphs == Split(ctx.blog_post, ParagraphSep)
    IN  NewsletterSubject \o ctx.title
        \o NewsletterGreeting \o ctx.title
        \o NewsletterHighlights
        \o (IF Len(paragraphs) > 1 THEN paragraphs[2] ELSE <<>>)
        \o NewsletterClosing

\* _rule_generate of the strategy
RuleGenerate(strategy, ctx) ==
    CASE strategy = "Summary"     -> SummaryRule(ctx)
      [] strategy = "SocialMedia" -> SocialRule(ctx)
      [] strategy = "Newsletter"  -> NewsletterRule(ctx)

\* generate without its try/except: the attempt's exception leaves generate.
GenerateNoCatch(strategy, ctx, outcome) ==
    LET llm == LlmGenerate(strategy, ctx, outcome)
    IN  IF llm.raised
        THEN [value |-> <<>>, path |-> "llm",
              raised |-> TRUE, requests |-> llm.requests]
        ELSE IF llm.value # <<>>
        THEN [value |-> llm.value, path |-> "llm",
              raised |-> FALSE, requests |-> llm.requests]
        ELSE [value |-> RuleGenerate(strategy, ctx), path |-> "rule",
              raised |-> FALSE, requests |-> llm.requests]

\* generate returning the attempt's result also when it is empty.
GenerateKeepEmpty(strategy, ctx, outcome) ==
    LET llm == LlmGenerate(strategy, ctx, outcome)
    IN  IF llm.raised
        THEN [value |-> RuleGenerate(strategy, ctx), path |-> "rule",
              raised |-> FALSE, requests |-> llm.requests]
        ELSE [value |-> llm.value, path |-> "llm",
              raised |-> FALSE, requests |-> llm.requests]

\* generate repeating a raising call once before it falls back.
GenerateRetryOnce(strategy, ctx, outcome) ==
    LET llm == LlmGenerate(strategy, ctx, outcome)
    IN  IF llm.raised
        THEN [value |-> RuleGenerate(strategy, ctx), path |-> "rule",
              raised |-> FALSE, requests |-> llm.requests \o llm.requests]
        ELSE IF llm.value # <<>>
        THEN [value |-> llm.value, path |-> "llm",
              raised |-> FALSE, requests |-> llm.requests]
        ELSE [value |-> RuleGenerate(strategy, ctx), path |-> "rule",
              raised |-> FALSE, requests |-> llm.requests]

\* ContentStrategy.generate: the model-backed attempt, and the rule-based
\* fallback when the attempt raises or its result is empty.  path records
\* which of the two produced the value.
Generate(strategy, ctx, outcome) ==
    LET llm == LlmGenerate(strategy, ctx, outcome)
    IN  IF llm.raised
        THEN [value |-> RuleGenerate(strategy, ctx), path |-> "rule",
              raised |-> FALSE, requests |-> llm.requests]
        ELSE IF llm.value # <<>>
        THEN [value |-> llm.value, path |-> "llm",
              raised |-> FALSE, requests |-> llm.requests]
        ELSE [value |-> RuleGenerate(strategy, ctx), path |-> "rule",
              raised |-> FALSE, requests |-> llm.requests]

\* The order in which repurpose fills its result: the key, and the strategy
\* that generates it.
RepurposeOrder ==
    << [slot |-> "summary",          strategy |-> "Summary"],
       [slot |-> "twitter",          strategy |-> "SocialMedia"],
       [slot |-> "linkedin",         strategy |-> "SocialMedia"],
       [slot |-> "facebook",         strategy |-> "SocialMedia"],
       [slot |-> "email_newsletter", strategy |-> "Newsletter"] >>

----------------------------------------------------------------------------
(* Input spaces.                                                           *)

\* The kinds of line the parser inputs are built from: blank, body text,
\* body text with surrounding blanks, first-level headings, second-level
\* headings (one of them named like the default section).
ParseLineKinds ==
    { <<>>,
      <<"a">>,
      <<" ", "b", " ">>,
      <<"#", " ", "T">>,
      <<"#", " ", " ", "U", " ">>,
      <<"#", "#", " ", "A">>,
      <<"#", "#", " ", "B">>,
      <<"#", "#", " ">> \o DefaultSection }

RECURSIVE LineSeqs(_, _)
\* All sequences of at most n lines drawn from kinds.
LineSeqs(kinds, n) ==
    IF n = 0 THEN {<<>>}
    ELSE LET shorter == LineSeqs(kinds, n - 1)
         IN  shorter \cup {Append(ls, k) : ls \in shorter, k \in kinds}

ParseInputs == {Join(ls, NL) : ls \in LineSeqs(ParseLineKinds, MaxLines)}

\* The kinds of line the pipeline inputs are built from: blank, a title line
\* with no text, a title line with a short and a long word.
PipeLineKinds ==
    { <<>>,
      <<"#", " ">>,
      <<"#", " ", "A", "I", " ", "T", "o", "p", "i", "c">> }

PipeInputs == {Join(ls, NL) : ls \in LineSeqs(PipeLineKinds, MaxPipeLines)}

ParaPattern == <<"a", "b", "c">>

\* A paragraph of n characters.
Para(n) == [i \in 1..n |-> ParaPattern[(i % 3) + 1]]

\* Paragraph lengths next to 0 and next to the truncation limit.
ParaLens == (0..Near) \cup ((SummaryLimit - Near)..(SummaryLimit + Near))

\* Blog posts of one, two or three paragraphs.
SummaryInputs ==
    {Para(n) : n \in ParaLens}
    \cup {Join(<<Para(n), Para(m)>>, ParagraphSep) : n \in ParaLens, m \in ParaLens}
    \cup {Join(<<Para(n), Para(m), Para(k)>>, ParagraphSep) :
              n \in ParaLens, m \in ParaLens, k \in 0..Near}

----------------------------------------------------------------------------
(* State machine.                                                          *)

NoContext == [built |-> FALSE]

NoLast == [slot |-> "none"]

NoReturn == [present |-> FALSE]

InitWith(inputs) ==
    /\ blog_post \in inputs
    /\ title = <<>>
    /\ sections = <<>>
    /\ pc = "new"
    /\ context = NoContext
    /\ results = <<>>
    /\ calls = <<>>
    /\ last = NoLast
    /\ returned = NoReturn

\* BlogContentRepurposer(blog_post): __post_init__ sets title and sections.
PostInit ==
    /\ pc = "new"
    /\ title' = ExtractTitle(blog_post)
    /\ sections' = ExtractSections(blog_post)
    /\ pc' = "parsed"
    /\ UNCHANGED <<blog_post, context, results, calls, last, returned>>

InitParse == InitWith(ParseInputs)

NextParse == PostInit

SpecParse == InitParse /\ [][NextParse]_vars

\* repurpose: the context shared by the strategies.
RepurposeBegin ==
    /\ pc = "parsed"
    /\ context' = [built |-> TRUE, blog_post |-> blog_post,
                   title |-> title, sections |-> sections]
    /\ pc' = RepurposeOrder[1].slot
    /\ UNCHANGED <<blog_post, title, sections, results, calls, last, returned>>

\* The pc after the i-th entry of the result is generated.
AfterSlot(i) ==
    IF i < Len(RepurposeOrder) THEN RepurposeOrder[i + 1].slot ELSE "assemble"

\* The i-th strategy invocation of repurpose, for each way the model client
\* can answer it.  An exception leaving generate leaves repurpose too.
GenerateSlot(i) ==
    /\ pc = RepurposeOrder[i].slot
    /\ \E outcome \in ModelOutcomes :
          LET g == Generate(RepurposeOrder[i].strategy, context, outcome)
          IN  /\ calls' = calls \o [k \in 1..Len(g.requests) |->
                                      [slot |-> RepurposeOrder[i].slot,
                                       request |-> g.requests[k]]]
              /\ last' = [slot |-> RepurposeOrder[i].slot, outcome |-> outcome,
                          path |-> g.path, raised |-> g.raised, value |-> g.value]
              /\ IF g.raised
                 THEN /\ pc' = "raised"
                      /\ results' = results
                 ELSE /\ pc' = AfterSlot(i)
                      /\ results' = DictSet(results, RepurposeOrder[i].slot, g.value)
    /\ UNCHANGED <<blog_post, title, sections, context, returned>>

\* SummaryStrategy().generate(context)
GenerateSummary == GenerateSlot(1)

\* SocialMediaStrategy().generate(context), once per platform
GenerateSocial == \E i \in 2..4 : GenerateSlot(i)

\* NewsletterStrategy().generate(context)
GenerateNewsletter == GenerateSlot(5)

\* repurpose: the returned mapping.
RepurposeReturn ==
    /\ pc = "assemble"
    /\ returned' =
          [present |-> TRUE,
           title |-> title,
           summary |-> Get(results, "summary"),
           social_media_posts |->
               << [name |-> "twitter",  body |-> Get(results, "twitter")],
                  [name |-> "linkedin", body |-> Get(results, "linkedin")],
                  [name |-> "facebook", body |-> Get(results, "facebook")] >>,
           email_newsletter |-> Get(results, "email_newsletter")]
    /\ pc' = "done"
    /\ UNCHANGED <<blog_post, title, sections, context, results, calls, last>>

Init == InitWith(PipeInputs)

Next ==
    \/ PostInit
    \/ RepurposeBegin
    \/ GenerateSummary
    \/ GenerateSocial
    \/ GenerateNewsletter
    \/ RepurposeReturn

Spec == Init /\ [][Next]_vars

InitSummary == InitWith(SummaryInputs)

NextSummary ==
    \/ PostInit
    \/ RepurposeBegin
    \/ GenerateSummary

SpecSummary == InitSummary /\ [][NextSummary]_vars

----------------------------------------------------------------------------
(* Properties of the parser, checked under SpecParse.                      *)

\* The lines of the input, as the parser sees them.
InputLines == Split(blog_post, NL)

TitleLineIndexes == {i \in 1..Len(InputLines) : IsTitleLine(InputLines[i])}

SectionLineIndexes == {i \in 1..Len(InputLines) : IsSectionLine(InputLines[i])}

Least(S) == CHOOSE i \in S : \A j \in S : i <= j

Greatest(S) == CHOOSE i \in S : \A j \in S : j <= i

\* s without its whitespace characters.
RECURSIVE Squash(_)
Squash(s) ==
    IF s = <<>> THEN <<>>
    ELSE (IF Head(s) \in Whitespace THEN <<>> ELSE <<Head(s)>>) \o Squash(Tail(s))

\* The lines of the input that are not second-level headings, in order.
RECURSIVE BodyLines(_)
BodyLines(lines) ==
    IF lines = <<>> THEN <<>>
    ELSE (IF IsSectionLine(Head(lines)) THEN <<>> ELSE <<Head(lines)>>)
         \o BodyLines(Tail(lines))

\* The bodies of the parsed sections, in order.
SectionBodies == [i \in 1..Len(sections) |-> sections[i].body]

\* The lines that precede the first second-level heading (all of them when
\* there is none).
LeadingLines ==
    IF SectionLineIndexes = {} THEN InputLines
    ELSE SubSeq(InputLines, 1, Least(SectionLineIndexes) - 1)

\* The name of the section that is open when the input ends.
LastOpenSection ==
    IF SectionLineIndexes = {} THEN DefaultSection
    ELSE HeadingText(InputLines[Greatest(SectionLineIndexes)])

\* C5: for every input, the parsed sections contain a section named
\* "Introduction" and it holds the content that precedes the first
\* second-level heading.
C5_IntroductionHoldsLeadingContent ==
    pc = "parsed" =>
        /\ HasKey(sections, DefaultSection)
        /\ Get(sections, DefaultSection) = Strip(Join(LeadingLines, NL))

\* C6: for every input, the section bodies concatenated in order reproduce
\* the non-heading lines of the input, whitespace aside: no body line is lost.
C6_BodyLinesPreserved ==
    pc = "parsed" =>
        Squash(Join(SectionBodies, NL)) = Squash(Join(BodyLines(InputLines), NL))

\* C7: with no line starting with "# " the title is the default title;
\* otherwise it is the heading text of the first such line.
C7_TitleFromFirstTitleLine ==
    pc = "parsed" =>
        IF TitleLineIndexes = {} THEN title = DefaultTitle
        ELSE title = HeadingText(InputLines[Least(TitleLineIndexes)])

\* C7 witness: a parsed input with two title lines of different text, whose
\* title is the text of the first.
C7_Witness ==
    /\ pc = "parsed"
    /\ Cardinality(TitleLineIndexes) >= 2
    /\ HeadingText(InputLines[Least(TitleLineIndexes)])
           # HeadingText(InputLines[Greatest(TitleLineIndexes)])
    /\ title = HeadingText(InputLines[Least(TitleLineIndexes)])

\* C9: when two second-level heading lines are consecutive, the section named
\* by the first is present with an empty body, whatever its name.
C9_EmptySectionPreserved ==
    pc = "parsed" =>
        \A i \in 1..(Len(InputLines) - 1) :
            (IsSectionLine(InputLines[i]) /\ IsSectionLine(InputLines[i + 1])) =>
                /\ HasKey(sections, HeadingText(InputLines[i]))
                /\ Get(sections, HeadingText(InputLines[i])) = <<>>

\* C10: at end of input the section still open is written to the sections,
\* also when the input ends with its heading line.
C10_LastOpenSectionWritten ==
    pc = "parsed" => HasKey(sections, LastOpenSection)

----------------------------------------------------------------------------
(* Properties of the strategies and of repurpose, checked under Spec.      *)

\* The characters that occur in the model's texts.
Alphabet ==
    {UpperLetters[k] : k \in 1..26} \cup {LowerLetters[k] : k \in 1..26}
    \cup Whitespace \cup {"#", ":", "[", "]", "!", "."}

\* v is a string.
IsText(v) == \A i \in 1..Len(v) : v[i] \in Alphabet

\* t is empty or whitespace only.
IsBlank(t) == \A i \in 1..Len(t) : t[i] \in Whitespace

\* t from its first to its last non-whitespace character.
Trimmed(t) ==
    LET inked == {i \in 1..Len(t) : t[i] \notin Whitespace}
    IN  IF inked = {} THEN <<>> ELSE SubSeq(t, Least(inked), Greatest(inked))

\* The model call gave nothing to return: it raised, or its first choice is
\* missing, absent or blank.
CallFailed(outcome) ==
    \/ outcome.kind = "raise"
    \/ outcome.choices = <<>>
    \/ outcome.choices[1].none
    \/ IsBlank(outcome.choices[1].text)

StrategyOf(slot) ==
    IF slot = "summary" THEN "Summary"
    ELSE IF slot = "email_newsletter" THEN "Newsletter"
    ELSE "SocialMedia"

Generated == last.slot # "none"

\* C1: for each strategy and every way the model client answers, generate
\* returns a string and no exception leaves it.
C1_GenerateNeverRaises ==
    /\ pc # "raised"
    /\ Generated => (~last.raised /\ IsText(last.value))

\* C1 witness: the newsletter strategy, the last of the three, has returned
\* although its model call raised.
C1_Witness ==
    /\ Generated
    /\ last.slot = "email_newsletter"
    /\ last.outcome.kind = "raise"
    /\ HasKey(results, "email_newsletter")

\* C2: generate returns the fallback's result exactly when the model call
\* raised or gave an empty, absent or blank result; otherwise it returns the
\* trimmed text of the first choice and the fallback is not used.
C2_FallbackExactlyOnFailure ==
    Generated =>
        IF CallFailed(last.outcome)
        THEN /\ last.path = "rule"
             /\ last.value = RuleGenerate(StrategyOf(last.slot), context)
        ELSE /\ last.path = "llm"
             /\ last.value = Trimmed(last.outcome.choices[1].text)

\* C2 witness: a social post taken from a padded model text, trimmed, with
\* the fallback unused.
C2_Witness ==
    /\ Generated
    /\ last.slot = "linkedin"
    /\ last.path = "llm"
    /\ last.outcome.choices[1].text = <<" ", "x", " ">>
    /\ Get(results, "linkedin") = <<"x">>

ExpectedCallOrder ==
    <<"summary", "twitter", "linkedin", "facebook", "email_newsletter">>

\* C3: one repurpose issues exactly five model calls, one after another in
\* the order summary, twitter, linkedin, facebook, newsletter: one call per
\* strategy invocation, none repeated when a call fails.
C3_FiveCallsInOrder ==
    /\ Len(calls) <= 5
    /\ \A k \in 1..Len(calls) : calls[k].slot = ExpectedCallOrder[k]
    /\ Len(calls) = Len(results)
    /\ pc \in {"assemble", "done"} => Len(calls) = 5

\* C3 witness: repurpose has returned after five calls, the last of which
\* raised and the first of which gave way to the fallback.
C3_Witness ==
    /\ pc = "done"
    /\ Len(calls) = 5
    /\ last.outcome.kind = "raise"
    /\ returned.summary = SummaryRule(context)

SocialKeys(bundle) ==
    [i \in 1..Len(bundle.social_media_posts) |-> bundle.social_media_posts[i].name]

\* C4 (as claimed): every repurpose returns a bundle in which title, summary,
\* newsletter and the three social posts each hold content.
C4_EveryFieldHoldsContent ==
    pc = "done" =>
        /\ returned.present
        /\ returned.title # <<>>
        /\ returned.summary # <<>>
        /\ returned.email_newsletter # <<>>
        /\ SocialKeys(returned) = <<"twitter", "linkedin", "facebook">>
        /\ \A i \in 1..3 : returned.social_media_posts[i].body # <<>>

\* C4 (amended): every repurpose returns a bundle, never an error; every
\* field is a string; the three social posts and the newsletter are never
\* empty; the title is empty only when the first title line has no text
\* after its marker, the summary only when the input text is empty.
C4_EveryFieldIsText ==
    /\ pc # "raised"
    /\ pc = "done" =>
        /\ returned.present
        /\ IsText(returned.title)
        /\ IsText(returned.summary)
        /\ IsText(returned.email_newsletter)
        /\ SocialKeys(returned) = <<"twitter", "linkedin", "facebook">>
        /\ \A i \in 1..3 :
              /\ IsText(returned.social_media_posts[i].body)
              /\ returned.social_media_posts[i].body # <<>>
        /\ returned.email_newsletter # <<>>
        /\ returned.title = <<>> =>
              /\ TitleLineIndexes # {}
              /\ HeadingText(InputLines[Least(TitleLineIndexes)]) = <<>>
        /\ returned.summary = <<>> => blog_post = <<>>

\* C4 witness: a returned bundle whose summary is the empty string.
C4_Witness ==
    /\ pc = "done"
    /\ returned.present
    /\ returned.summary = <<>>
    /\ returned.email_newsletter # <<>>

----------------------------------------------------------------------------
(* Property of the summary fallback, checked under SpecSummary.            *)

\* The first two blank-line-separated paragraphs of the post, joined by a
\* space.
JoinedParagraphs ==
    LET paragraphs == Split(blog_post, ParagraphSep)
    IN  IF Len(paragraphs) = 1 THEN paragraphs[1]
        ELSE paragraphs[1] \o <<" ">> \o paragraphs[2]

SummaryFellBack == Generated /\ last.slot = "summary" /\ last.path = "rule"

\* C8: the summary fallback returns the joined paragraphs unmodified when
\* they have at most 250 characters, and otherwise their first 250 characters
\* followed by "...", 253 characters in all.
C8_SummaryTruncation ==
    SummaryFellBack =>
        IF Len(JoinedParagraphs) > 250
        THEN /\ Len(last.value) = 253
             /\ SubSeq(last.value, 1, 250) = SubSeq(JoinedParagraphs, 1, 250)
             /\ SubSeq(last.value, 251, 253) = <<".", ".", ".">>
        ELSE last.value = JoinedParagraphs

\* C8 witness: the fallback has run on a post whose joined paragraphs have
\* exactly 250 characters and returned them whole.
C8_Witness ==
    /\ SummaryFellBack
    /\ Len(Split(blog_post, ParagraphSep)) >= 2
    /\ Len(JoinedParagraphs) = 250
    /\ last.value = JoinedParagraphs

====
